---- MODULE Spec2Model ----
(***************************************************************************)
(* Plan-generation engine of the Virtual Fitness Coach App.                *)
(*                                                                         *)
(*   generateWorkoutPlan    features/generator/engine     (part_010)       *)
(*   generateAIWorkoutPlan  services/aiGeneratorService   (part_012)       *)
(*                                                                         *)
(* Tag strings "facet:value" are records [facet, value]; the Chinese tag   *)
(* values are written in pinyin:                                           *)
(*   tushou = bodyweight, yaling = dumbbell, tanlidai = band,              *)
(*   huling = kettlebell, chujie = beginner, zhongjie = intermediate,      *)
(*   gaojie = advanced, xiuxi = rest.                                      *)
(***************************************************************************)
EXTENDS Integers, Sequences, FiniteSets, TLC

VARIABLES
    catalogue,          \* what getAllExercises() resolves to
    prefs,              \* the UserPreferences argument
    env,                \* VITE_USE_EDGE_FUNCTION / VITE_GEMINI_API_KEY
    caller,             \* "engine" = generateWorkoutPlan, "ai" = generateAIWorkoutPlan
    pc,                 \* position of the call
    allExercises,       \* const allExercises
    filteredExercises,  \* const filtered / filteredExercises
    exercises,          \* parameter of fallbackGenerate
    shuffled,           \* const arr (shuffle) / const shuffled
    i,                  \* loop variable of the Fisher-Yates loop
    plan,               \* const plan: PlanItem[]
    currentDuration,    \* let currentDuration
    index,              \* let index
    selectedIds,        \* let selectedIds
    calls,              \* outbound requests issued so far, in order
    tier,               \* which code path built the returned plan
    result,             \* the value the promise settles with
    outcome,            \* "pending", "resolved" or "rejected"
    choices,            \* the indices j the Fisher-Yates loop drew, in order
    db,                 \* supabase.supabaseUrl and what the query settles with
    fetchStatus,        \* the promise of getAllExercises
    currentScreen,      \* useState<AppScreen> of AppContent
    workoutPlan,        \* useState<PlanItem[]> of AppContent
    appPc,              \* position of handleSetupComplete
    user,               \* useAuth().user is set (a member is logged in)
    responseText,       \* the text an AI provider answered with
    clientIds,          \* what parseExerciseIds returns for it
    edgeIds,            \* let selectedIds of the edge function
    currentIndex,       \* useState(0) of PlayerScreen
    timeLeft,           \* useState(plan[0].duration)
    isPaused,           \* useState(false)
    elapsedSeconds,     \* useState(0)
    completedExercises, \* useState(0)
    skippedExercises,   \* useState<Set<number>>(new Set())
    renderedIndex,      \* currentIndex of the render before the last one
    playerPc,           \* "unmounted", "effects" (a render is committed,
                        \* its effects are due) or "idle"
    completedExerciseCount, \* useState(0) of AppContent
    actualDurationSeconds,  \* useState(0) of AppContent
    skipUsed,           \* skipItem has been called (observation)
    counted,            \* seconds counted down on the current item
                        \* (observation)
    playedToEnd         \* indices of the items counted down from their full
                        \* duration to 0 (observation)

\* state of the catalogue accessor and of the screen component
fetchVars == <<db, fetchStatus>>
appVars == <<currentScreen, workoutPlan, appPc, user>>

\* state of the response parsers and of the player
parseVars == <<responseText, clientIds, edgeIds>>
playerVars ==
    <<currentIndex, timeLeft, isPaused, elapsedSeconds, completedExercises,
      skippedExercises, renderedIndex, playerPc, completedExerciseCount,
      actualDurationSeconds, skipUsed, counted, playedToEnd>>

vars == <<catalogue, prefs, env, caller, pc, allExercises, filteredExercises,
          exercises, shuffled, i, plan, currentDuration, index, selectedIds,
          calls, tier, result, outcome, choices, fetchVars, appVars,
          parseVars, playerVars>>

----------------------------------------------------------------------------
(* Bounds of the model *)

MaxCatalog == 2      \* exercises in the catalogue
MaxMinutes == 4      \* prefs.durationMinutes is 1 or MaxMinutes
MaxIds == 3          \* length of an id list returned by an AI tier
MaxShuffle == 4      \* length of an array shuffled on its own
MaxTags == 2         \* tags of an exercise filtered on its own
MaxPack == 2         \* length of a list packed on its own
MaxText == 4         \* tokens of a response text parsed on its own
MaxPlay == 3         \* items of a plan played on its own

----------------------------------------------------------------------------
(* Data *)

Tag(f, v) == [facet |-> f, value |-> v]

Exercise(id, name, d, tags) ==
    [id |-> id, name |-> name, duration_seconds |-> d, tags |-> tags]

\* The exercises a catalogue is drawn from: the three of the unit test,
\* pu-002 of MOCK_EXERCISES (two difficulty tags), one without an equipment
\* tag and one with an equipment value the filter does not know.
ExercisePool == <<
    Exercise("1", "pushup", 30,
             <<Tag("equipment", "tushou"), Tag("difficulty", "chujie")>>),
    Exercise("2", "squat", 45,
             <<Tag("equipment", "tushou"), Tag("difficulty", "chujie")>>),
    Exercise("3", "curl", 40,
             <<Tag("equipment", "yaling"), Tag("difficulty", "zhongjie")>>),
    Exercise("u4", "pushup2", 40,
             <<Tag("goal", "zengji"), Tag("difficulty", "zhongjie"),
               Tag("difficulty", "gaojie"), Tag("equipment", "tushou")>>),
    Exercise("6", "jacks", 60,
             <<Tag("goal", "jianzhi"), Tag("difficulty", "chujie")>>),
    Exercise("7", "deadlift", 90,
             <<Tag("equipment", "barbell"), Tag("difficulty", "gaojie")>>) >>

CatalogOf(S) ==
    LET F[k \in 0..Len(ExercisePool)] ==
            IF k = 0 THEN <<>>
            ELSE IF k \in S THEN Append(F[k - 1], ExercisePool[k])
                 ELSE F[k - 1]
    IN  F[Len(ExercisePool)]

\* getAllExercises resolves with at least one exercise
Catalogues ==
    { CatalogOf(S) : S \in { X \in SUBSET (1..Len(ExercisePool)) :
                                 Cardinality(X) \in 1..MaxCatalog } }

\* MOCK_EXERCISES of data/mockExercises
MOCK_EXERCISES == <<
    Exercise("sq-001", "squat", 45,
             <<Tag("goal", "zengji"), Tag("goal", "suxing"),
               Tag("difficulty", "chujie"), Tag("equipment", "tushou"),
               Tag("type", "jili")>>),
    Exercise("pu-001", "knee-pushup", 30,
             <<Tag("goal", "zengji"), Tag("goal", "suxing"),
               Tag("difficulty", "chujie"), Tag("equipment", "tushou"),
               Tag("type", "jili")>>),
    Exercise("jj-001", "jumping-jacks", 60,
             <<Tag("goal", "jianzhi"), Tag("difficulty", "chujie"),
               Tag("equipment", "tushou"), Tag("type", "youyang")>>),
    Exercise("plank-001", "plank", 30,
             <<Tag("goal", "suxing"), Tag("difficulty", "chujie"),
               Tag("equipment", "tushou"), Tag("type", "hexin")>>),
    Exercise("pu-002", "pushup", 40,
             <<Tag("goal", "zengji"), Tag("difficulty", "zhongjie"),
               Tag("difficulty", "gaojie"), Tag("equipment", "tushou"),
               Tag("type", "jili")>>),
    Exercise("burpee-001", "burpees", 40,
             <<Tag("goal", "jianzhi"), Tag("goal", "zengji"),
               Tag("difficulty", "gaojie"), Tag("equipment", "tushou"),
               Tag("type", "gaoqiangdu")>>),
    Exercise("lunge-001", "lunges", 45,
             <<Tag("goal", "suxing"), Tag("goal", "zengji"),
               Tag("difficulty", "zhongjie"), Tag("equipment", "tushou"),
               Tag("type", "jili")>>),
    Exercise("db-press-001", "db-shoulder-press", 45,
             <<Tag("goal", "zengji"), Tag("difficulty", "zhongjie"),
               Tag("equipment", "yaling"), Tag("type", "jili")>>),
    Exercise("db-row-001", "db-row", 45,
             <<Tag("goal", "zengji"), Tag("goal", "suxing"),
               Tag("difficulty", "zhongjie"), Tag("equipment", "yaling"),
               Tag("type", "jili")>>),
    Exercise("db-goblet-001", "goblet-squat", 45,
             <<Tag("goal", "zengji"), Tag("difficulty", "zhongjie"),
               Tag("equipment", "yaling"), Tag("type", "jili")>>),
    Exercise("band-pull-001", "face-pull", 40,
             <<Tag("goal", "suxing"), Tag("difficulty", "chujie"),
               Tag("equipment", "tanlidai"), Tag("type", "jili")>>) >>

\* A row as the exercises table returns it: tags is an array, or null /
\* undefined (array = FALSE)
RawRow(ex, array) ==
    [id |-> ex.id, name |-> ex.name, duration_seconds |-> ex.duration_seconds,
     tags |-> [array |-> array, value |-> IF array THEN ex.tags ELSE <<>>]]

RawRows(c) == [k \in 1..Len(c) |-> RawRow(c[k], TRUE)]

\* lists of rows the table may hold: no row, or the rows of a catalogue,
\* any of them with tags missing
RawRowLists ==
    { [k \in 1..Len(c) |-> RawRow(c[k], mask[k])] :
          c \in Catalogues \cup {<<>>}, mask \in [1..MaxCatalog -> BOOLEAN] }

\* what `await supabase.from('exercises').select('*')` settles with: it
\* throws, { error }, { data: null }, or { data: rows }
Throws == [kind |-> "throws", data |-> <<>>]
QueryError == [kind |-> "error", data |-> <<>>]
NullData == [kind |-> "null", data |-> <<>>]
Rows(d) == [kind |-> "rows", data |-> d]

Responses == {Throws, QueryError, NullData} \cup { Rows(d) : d \in RawRowLists }

\* supabase.supabaseUrl ("" when unset) and the table
Databases == [supabaseUrl : {"", "url"}, response : Responses]

\* { ...item, tags: Array.isArray(item.tags) ? item.tags : [] }
Sanitize(item) ==
    Exercise(item.id, item.name, item.duration_seconds,
             IF item.tags.array THEN item.tags.value ELSE <<>>)

\* NoData treating only null as no data
NoDataNullOnly(response) == response.kind = "null"

\* if (!data || data.length === 0)
NoData(response) == response.kind = "null" \/ Len(response.data) = 0

EquipmentSets == { {"bodyweight"}, {"dumbbell"}, {"bodyweight", "dumbbell"} }

Difficulties == {"beginner", "intermediate", "advanced"}

Preferences ==
    [equipment : EquipmentSets, difficulty : Difficulties,
     durationMinutes : {1, MaxMinutes}]

NoExercise == [id |-> "undefined", name |-> "undefined",
               duration_seconds |-> 0, tags |-> <<>>]

REST_DURATION == 30

ExerciseItem(ex) ==
    [type |-> "exercise", duration |-> ex.duration_seconds,
     exercise |-> ex, title |-> ex.name]

\* RestItem with a rest as long as the overshoot guard
RestItemLong ==
    [type |-> "rest", duration |-> 60,
     title |-> "xiuxi", exercise |-> NoExercise]

RestItem ==
    [type |-> "rest", duration |-> REST_DURATION,
     title |-> "xiuxi", exercise |-> NoExercise]

----------------------------------------------------------------------------
(* Sequence helpers standing for the array methods the code uses *)

\* array.filter(P)
Filter(s, P(_)) == SelectSeq(s, P)

\* array.find(P): the first element satisfying P, or "undefined"
FindIndex(s, P(_)) ==
    IF \E k \in 1..Len(s) : P(s[k])
    THEN CHOOSE k \in 1..Len(s) : P(s[k]) /\ \A m \in 1..(k - 1) : ~P(s[m])
    ELSE 0

\* array.slice(0, n)
Slice0(s, n) == SubSeq(s, 1, IF Len(s) < n THEN Len(s) ELSE n)

\* array.map(f)
Map(s, f(_)) == [k \in 1..Len(s) |-> f(s[k])]

\* Swap writing a[y] to a[x] and losing a[x]
SwapOverwrite(a, x, y) ==
    [a EXCEPT ![x + 1] = a[y + 1]]

\* [a[x], a[y]] = [a[y], a[x]] on 0-based indices
Swap(a, x, y) ==
    [a EXCEPT ![x + 1] = a[y + 1], ![y + 1] = a[x + 1]]

\* for (let i = ...; i > 0; i--) { j = ...; swap arr[i], arr[j] } from index
\* ii on, with js the values j takes
RECURSIVE ShuffleFrom(_, _, _)
ShuffleFrom(arr, ii, js) ==
    IF ~(ii > 0) THEN arr
    ELSE ShuffleFrom(Swap(arr, ii, Head(js)), ii - 1, Tail(js))

\* shuffle(array): copy, loop, return arr
shuffle(array, js) == ShuffleFrom(array, Len(array) - 1, js)

\* array.reduce((sum, item) => sum + item.duration, 0)
RECURSIVE TotalDuration(_)
TotalDuration(p) ==
    IF p = <<>> THEN 0 ELSE p[1].duration + TotalDuration(Tail(p))

ExerciseCount(p) == Len(SelectSeq(p, LAMBDA it : it.type = "exercise"))

----------------------------------------------------------------------------
(* Tag classifier and eligibility filter *)

\* getTagValue(tags, prefix): value of the first tag with that prefix
getTagValue(tags, prefix) ==
    LET k == FindIndex(tags, LAMBDA t : t.facet = prefix)
    IN  IF k = 0 THEN "null" ELSE tags[k].value

\* let eqId = 'bodyweight'; if (eqTag === ...) eqId = ...
EqId(eqTag) ==
    IF eqTag = "yaling" THEN "dumbbell"
    ELSE IF eqTag = "tanlidai" THEN "band"
    ELSE IF eqTag = "huling" THEN "kettlebell"
    ELSE "bodyweight"

\* DifficultyOk admitting under 'intermediate' only the intermediate tag
DifficultyOkSameLevel(difficulty, diffTag) ==
    IF difficulty = "beginner" THEN diffTag = "chujie"
    ELSE IF difficulty = "intermediate" THEN diffTag = "zhongjie"
    ELSE TRUE

\* the difficulty check of the filter callback
DifficultyOk(difficulty, diffTag) ==
    IF difficulty = "beginner" THEN diffTag = "chujie"
    ELSE IF difficulty = "intermediate" THEN diffTag # "gaojie"
    ELSE TRUE

\* Eligible with the equipment check left out
EligibleIgnoringEquipment(p, ex) ==
    DifficultyOk(p.difficulty, getTagValue(ex.tags, "difficulty"))

\* the filter callback of generateWorkoutPlan / generateAIWorkoutPlan
Eligible(p, ex) ==
    /\ EqId(getTagValue(ex.tags, "equipment")) \in p.equipment
    /\ DifficultyOk(p.difficulty, getTagValue(ex.tags, "difficulty"))

FilterExercises(all, p) == Filter(all, LAMBDA ex : Eligible(p, ex))

\* tags.includes('equipment:tushou')
HasBodyweightTag(ex) ==
    \E k \in 1..Len(ex.tags) : ex.tags[k] = Tag("equipment", "tushou")

\* the return of the empty-filter branch of generateWorkoutPlan
WidenedPlan(all) ==
    Map(Slice0(Filter(all, HasBodyweightTag), 5), ExerciseItem)

targetDurationSeconds == prefs.durationMinutes * 60

----------------------------------------------------------------------------
(* Initial state: a catalogue, a preference record and a configuration *)

\* no response text is being parsed
ParseIdle ==
    /\ responseText = <<>>
    /\ clientIds = <<>>
    /\ edgeIds = <<>>

\* PlayerScreen is not mounted; AppContent's useState(0) counters
PlayerIdle ==
    /\ playerPc = "unmounted"
    /\ currentIndex = 0
    /\ timeLeft = 0
    /\ isPaused = FALSE
    /\ elapsedSeconds = 0
    /\ completedExercises = 0
    /\ skippedExercises = {}
    /\ renderedIndex = -1
    /\ completedExerciseCount = 0
    /\ actualDurationSeconds = 0
    /\ skipUsed = FALSE
    /\ counted = 0
    /\ playedToEnd = {}

Init ==
    /\ catalogue \in Catalogues
    /\ prefs \in Preferences
    /\ caller \in {"engine", "ai"}
    /\ env \in [useEdge : BOOLEAN, apiKey : BOOLEAN]
    /\ caller = "engine" => env = [useEdge |-> TRUE, apiKey |-> FALSE]
    /\ pc = "start"
    /\ allExercises = <<>>
    /\ filteredExercises = <<>>
    /\ exercises = <<>>
    /\ shuffled = <<>>
    /\ i = 0
    /\ plan = <<>>
    /\ currentDuration = 0
    /\ index = 0
    /\ selectedIds = <<>>
    /\ calls = <<>>
    /\ tier = "none"
    /\ result = <<>>
    /\ outcome = "pending"
    /\ choices = <<>>
    /\ db = [supabaseUrl |-> "url", response |-> Rows(RawRows(catalogue))]
    /\ fetchStatus = "resolved"
    /\ currentScreen = "setup"
    /\ workoutPlan = <<>>
    /\ appPc = "idle"
    /\ user = FALSE
    /\ ParseIdle
    /\ PlayerIdle

Resolve(p, t) ==
    /\ result' = p
    /\ tier' = t
    /\ outcome' = "resolved"
    /\ pc' = "done"

----------------------------------------------------------------------------
(* generateWorkoutPlan (engine) *)

\* lines 83-135: fetch, filter, the empty-filter return, start of shuffle
EngineFilter ==
    /\ pc = "start" /\ caller = "engine"
    /\ allExercises' = catalogue
    /\ filteredExercises' = FilterExercises(catalogue, prefs)
    /\ IF filteredExercises' = <<>>
       THEN /\ Resolve(WidenedPlan(catalogue), "widened")
            /\ UNCHANGED <<shuffled, i, choices>>
       ELSE /\ shuffled' = filteredExercises'
            /\ i' = Len(filteredExercises') - 1
            /\ choices' = <<>>
            /\ pc' = "e_shuffle"
            /\ UNCHANGED <<result, tier, outcome>>
    /\ UNCHANGED <<fetchVars, appVars, parseVars, playerVars>>
    /\ UNCHANGED <<catalogue, prefs, env, caller, exercises, plan,
                   currentDuration, index, selectedIds, calls>>

\* shuffle, one iteration: j = floor(random() * (i + 1)), swap arr[i], arr[j]
EngineShuffleStep ==
    /\ pc = "e_shuffle" /\ i > 0
    /\ \E j \in 0..i :
           /\ shuffled' = Swap(shuffled, i, j)
           /\ choices' = Append(choices, j)
    /\ i' = i - 1
    /\ UNCHANGED <<fetchVars, appVars, parseVars, playerVars>>
    /\ UNCHANGED <<catalogue, prefs, env, caller, pc, allExercises,
                   filteredExercises, exercises, plan, currentDuration, index,
                   selectedIds, calls, tier, result, outcome>>

\* shuffle returns; plan = [], currentDuration = 0, index = 0
EngineShuffleDone ==
    /\ pc = "e_shuffle" /\ ~(i > 0)
    /\ plan' = <<>>
    /\ currentDuration' = 0
    /\ index' = 0
    /\ pc' = "e_pack"
    /\ UNCHANGED <<fetchVars, appVars, parseVars, playerVars>>
    /\ UNCHANGED <<catalogue, prefs, env, caller, allExercises,
                   filteredExercises, exercises, shuffled, i, choices,
                   selectedIds,
                   calls, tier, result, outcome>>

\* EngineLoopCond without cycling back over the candidates
EngineLoopCondNoCycle ==
    currentDuration < targetDurationSeconds /\ index < Len(shuffled)

\* while (currentDuration < targetDurationSeconds)
EngineLoopCond == currentDuration < targetDurationSeconds

\* if (currentDuration + REST_DURATION < targetDurationSeconds), engine
AddRest(cur, target) == cur + REST_DURATION < target

\* one iteration of the body of the while loop of generateWorkoutPlan
EnginePackStep ==
    /\ pc = "e_pack" /\ EngineLoopCond
    /\ LET exercise == shuffled[(index % Len(shuffled)) + 1]
           cur == currentDuration + exercise.duration_seconds
           p == Append(plan, ExerciseItem(exercise))
       IN  IF cur >= targetDurationSeconds
           THEN /\ plan' = p
                /\ currentDuration' = cur
                /\ pc' = "e_return"
                /\ UNCHANGED index
           ELSE /\ IF AddRest(cur, targetDurationSeconds)
                   THEN /\ plan' = Append(p, RestItem)
                        /\ currentDuration' = cur + REST_DURATION
                   ELSE /\ plan' = p
                        /\ currentDuration' = cur
                /\ index' = index + 1
                /\ UNCHANGED pc
    /\ UNCHANGED <<fetchVars, appVars, parseVars, playerVars>>
    /\ UNCHANGED <<catalogue, prefs, env, caller, allExercises,
                   filteredExercises, exercises, shuffled, i, choices,
                   selectedIds,
                   calls, tier, result, outcome>>

\* return plan
EngineReturn ==
    /\ \/ pc = "e_return"
       \/ pc = "e_pack" /\ ~EngineLoopCond
    /\ Resolve(plan, "local")
    /\ UNCHANGED <<fetchVars, appVars, parseVars, playerVars>>
    /\ UNCHANGED <<catalogue, prefs, env, caller, allExercises,
                   filteredExercises, exercises, shuffled, i, choices, plan,
                   currentDuration, index, selectedIds, calls>>

----------------------------------------------------------------------------
(* AI responses.  A response text is a sequence of tokens: the brackets and *)
(* the comma of JSON, a quoted string, a number, a word of prose, and a     *)
(* bare identifier of UUID shape.                                           *)

Tok(k, v) == [k |-> k, v |-> v]
LB == Tok("[", "")
RB == Tok("]", "")
COMMA == Tok(",", "")
WORD == Tok("word", "")
NUM == Tok("num", "")
Str(id) == Tok("str", id)
Uuid(id) == Tok("uuid", id)

\* ids that match /[a-f0-9]{8}-[a-f0-9]{4}-...-[a-f0-9]{12}/i
UuidIds == {"u4", "ux"}

\* an id no catalogue holds
UnknownId == "ux"

IdsOf(all) == { all[k].id : k \in 1..Len(all) }

\* id lists an AI tier answers with: up to MaxIds ids of the exercises it
\* was sent (exerciseListForAI), alone or with an id it made up in front or
\* at the end
KnownIdLists(all) == UNION { [1..n -> IdsOf(all)] : n \in 0..MaxIds }

IdLists(all) ==
    KnownIdLists(all)
    \cup { <<UnknownId>> \o ids : ids \in KnownIdLists(all) }
    \cup { Append(ids, UnknownId) : ids \in KnownIdLists(all) }

\* JSON text of an array of strings: ["a","b",...]
RECURSIVE Elements(_)
Elements(ids) ==
    IF ids = <<>> THEN <<>>
    ELSE IF Len(ids) = 1 THEN <<Str(ids[1])>>
    ELSE <<Str(ids[1]), COMMA>> \o Elements(Tail(ids))

ArrayText(ids) == <<LB>> \o Elements(ids) \o <<RB>>

\* the text inside the brackets is a list of JSON values (JSON.parse accepts)
RECURSIVE IsJsonElements(_)
IsJsonElements(ts) ==
    IF ts = <<>> THEN FALSE
    ELSE /\ ts[1].k \in {"str", "num"}
         /\ \/ Len(ts) = 1
            \/ /\ Len(ts) >= 3
               /\ ts[2] = COMMA
               /\ IsJsonElements(SubSeq(ts, 3, Len(ts)))

\* [...new Set(matches)]: first occurrences, in order
RECURSIVE Dedupe(_)
Dedupe(s) ==
    IF s = <<>> THEN <<>>
    ELSE LET front == Dedupe(SubSeq(s, 1, Len(s) - 1))
             last == s[Len(s)]
         IN  IF \E k \in 1..Len(front) : front[k] = last
             THEN front ELSE Append(front, last)

\* response.match(/\[[\s\S]*?\]/): from the first '[' to the first ']'
\* after it; inner is the text between the two
jsonMatch(response) ==
    LET a == FindIndex(response, LAMBDA t : t = LB)
        rest == IF a = 0 THEN <<>> ELSE SubSeq(response, a + 1, Len(response))
        b == FindIndex(rest, LAMBDA t : t = RB)
    IN  [found |-> a # 0 /\ b # 0,
         inner |-> IF b = 0 THEN <<>> ELSE SubSeq(rest, 1, b - 1)]

\* JSON.parse(jsonMatch[0]) does not throw (its value is then an array)
JsonParses(inner) == inner = <<>> \/ IsJsonElements(inner)

\* ids.filter(id => typeof id === 'string')
StringElements(inner) ==
    Map(SelectSeq(inner, LAMBDA t : t.k = "str"), LAMBDA t : t.v)

\* response.match(idPattern), de-duplicated; [] when there is no match
UuidMatches(response) ==
    Dedupe(Map(SelectSeq(response,
                         LAMBDA t : \/ t.k = "uuid"
                                    \/ t.k = "str" /\ t.v \in UuidIds),
               LAMBDA t : t.v))

\* parseExerciseIds(response)
parseExerciseIds(response) ==
    LET m == jsonMatch(response)
    IN  IF m.found /\ JsonParses(m.inner)
        THEN StringElements(m.inner)
        ELSE UuidMatches(response)

\* response texts of the direct provider: a JSON array inside prose, bare
\* identifiers, and prose only
DirectTexts(all) ==
    { <<WORD>> \o ArrayText(ids) \o <<WORD>> : ids \in IdLists(all) }
    \cup { Map(ids, Uuid) : ids \in IdLists(all) }
    \cup { <<WORD>> }

----------------------------------------------------------------------------
(* generateAIWorkoutPlan *)

\* return fallbackGenerate(exercises, prefs), up to the start of its shuffle.
\* The locals of generateAIWorkoutPlan's try block (selectedIds, plan) are
\* dead once this return is reached and are dropped.
StartFallback(exs) ==
    /\ exercises' = exs
    /\ shuffled' = exs
    /\ i' = Len(exs) - 1
    /\ choices' = <<>>
    /\ selectedIds' = <<>>
    /\ plan' = <<>>
    /\ pc' = "f_shuffle"
    /\ UNCHANGED <<tier, result, outcome>>

\* CatchOuter rethrowing instead of falling back
RethrowOuter ==
    /\ outcome' = "rejected"
    /\ pc' = "done"
    /\ UNCHANGED <<exercises, shuffled, i, choices, selectedIds, plan, tier,
                   result>>

\* catch (error) { return fallbackGenerate(filteredExercises, prefs); }
CatchOuter == StartFallback(filteredExercises)

\* lines 239-266: fetch, filter, the empty-filter branch
AIFilter ==
    /\ pc = "start" /\ caller = "ai"
    /\ allExercises' = catalogue
    /\ filteredExercises' = FilterExercises(catalogue, prefs)
    /\ IF filteredExercises' = <<>>
       THEN StartFallback(allExercises')
       ELSE /\ pc' = "ai_try"
            /\ UNCHANGED <<exercises, shuffled, i, choices, selectedIds,
                           plan, tier,
                           result, outcome>>
    /\ UNCHANGED <<fetchVars, appVars, parseVars, playerVars>>
    /\ UNCHANGED <<catalogue, prefs, env, caller, currentDuration, index,
                   calls>>

\* CallGeminiDirectly without the check of the key
CallGeminiDirectlyUnchecked ==
    /\ calls' = Append(calls, "direct")
    /\ pc' = "direct_wait"
    /\ UNCHANGED <<exercises, shuffled, i, choices, selectedIds, plan, tier,
                   result, outcome>>

\* callGeminiDirectly up to its await: throws without a key (caught by the
\* outer catch, which calls fallbackGenerate), else issues the fetch, which
\* the provider answers or never answers
CallGeminiDirectly ==
    IF ~env.apiKey
    THEN /\ CatchOuter
         /\ UNCHANGED calls
    ELSE /\ calls' = Append(calls, "direct")
         /\ \E answers \in BOOLEAN :
                pc' = IF answers THEN "direct_wait" ELSE "direct_silent"
         /\ UNCHANGED <<exercises, shuffled, i, choices, selectedIds, plan,
                        tier,
                        result, outcome>>

\* if (shouldUseEdgeFunction()) callEdgeFunction(...) up to its await;
\* isSupabaseConfigured is a module constant read only here; the request is
\* answered or never answered
AICallEdge ==
    /\ pc = "ai_try" /\ env.useEdge
    /\ \E isSupabaseConfigured \in BOOLEAN :
           IF ~isSupabaseConfigured
           THEN /\ pc' = "edge_catch"
                /\ UNCHANGED calls
           ELSE /\ calls' = Append(calls, "edge")
                /\ \E answers \in BOOLEAN :
                       pc' = IF answers THEN "edge_wait" ELSE "edge_silent"
    /\ UNCHANGED <<fetchVars, appVars, parseVars, playerVars>>
    /\ UNCHANGED <<catalogue, prefs, env, caller, allExercises,
                   filteredExercises, exercises, shuffled, i, choices, plan,
                   currentDuration, index, selectedIds, tier, result, outcome>>

\* supabase.functions.invoke settles: an error, a body of the wrong shape,
\* or { success: true, selectedExerciseIds: ids }
EdgeResponds ==
    /\ pc = "edge_wait"
    /\ \/ /\ pc' = "edge_catch"
          /\ UNCHANGED selectedIds
       \/ \E ids \in IdLists(filteredExercises) :
              /\ selectedIds' = ids
              /\ pc' = "assemble"
    /\ UNCHANGED <<fetchVars, appVars, parseVars, playerVars>>
    /\ UNCHANGED <<catalogue, prefs, env, caller, allExercises,
                   filteredExercises, exercises, shuffled, i, choices, plan,
                   currentDuration, index, calls, tier, result, outcome>>

\* AbortSignal.timeout(30000) of the client's fetch fires on a request that
\* got no answer: invoke returns { error }, which callEdgeFunction throws
EdgeTimeout ==
    /\ pc = "edge_silent"
    /\ pc' = "edge_catch"
    /\ UNCHANGED <<fetchVars, appVars, parseVars, playerVars>>
    /\ UNCHANGED <<catalogue, prefs, env, caller, allExercises,
                   filteredExercises, exercises, shuffled, i, choices, plan,
                   currentDuration, index, selectedIds, calls, tier, result,
                   outcome>>

\* catch (edgeFnError): direct call if a key is configured, else throw
AIEdgeCatch ==
    /\ pc = "edge_catch"
    /\ CallGeminiDirectly
    /\ UNCHANGED <<fetchVars, appVars, parseVars, playerVars>>
    /\ UNCHANGED <<catalogue, prefs, env, caller, allExercises,
                   filteredExercises, currentDuration, index>>

\* AIDirectMode taken whatever shouldUseEdgeFunction() returns
AIDirectModeAlways ==
    /\ pc = "ai_try"
    /\ CallGeminiDirectly
    /\ UNCHANGED <<fetchVars, appVars, parseVars, playerVars>>
    /\ UNCHANGED <<catalogue, prefs, env, caller, allExercises,
                   filteredExercises, currentDuration, index>>

\* else branch of shouldUseEdgeFunction(): direct mode
AIDirectMode ==
    /\ pc = "ai_try" /\ ~env.useEdge
    /\ CallGeminiDirectly
    /\ UNCHANGED <<fetchVars, appVars, parseVars, playerVars>>
    /\ UNCHANGED <<catalogue, prefs, env, caller, allExercises,
                   filteredExercises, currentDuration, index>>

\* the fetch settles: it throws, answers non-2xx or without text (all caught
\* by the outer catch), or answers with a text that is parsed
DirectResponds ==
    /\ pc = "direct_wait"
    /\ \/ CatchOuter
       \/ \E text \in DirectTexts(filteredExercises) :
              /\ selectedIds' = parseExerciseIds(text)
              /\ pc' = "assemble"
              /\ UNCHANGED <<exercises, shuffled, i, choices, plan, tier,
                             result,
                             outcome>>
    /\ UNCHANGED <<fetchVars, appVars, parseVars, playerVars>>
    /\ UNCHANGED <<catalogue, prefs, env, caller, allExercises,
                   filteredExercises, currentDuration, index, calls>>

\* OverBudget never cutting the plan
OverBudgetNever(cur, d, target) == FALSE

\* if (currentDuration + exercise.duration_seconds > targetDurationSeconds + 60)
OverBudget(cur, d, target) == cur + d > target + 60

\* if (currentDuration + REST_DURATION < targetDurationSeconds), AI assembly
AIAddRest(cur, target) == cur + REST_DURATION < target

\* FindExercise taking the first exercise when the id names none
FindExerciseOrFirst(eligible, id) ==
    LET k == FindIndex(eligible, LAMBDA ex : ex.id = id)
    IN  IF k = 0 /\ eligible # <<>> THEN 1 ELSE k

\* filteredExercises.find(ex => ex.id === id)
FindExercise(eligible, id) == FindIndex(eligible, LAMBDA ex : ex.id = id)

\* for (const id of selectedIds) { ... }, from plan p and elapsed time cur
RECURSIVE AssembleFrom(_, _, _, _, _)
AssembleFrom(ids, eligible, target, p, cur) ==
    IF ids = <<>> THEN p
    ELSE LET k == FindExercise(eligible, Head(ids))
         IN  IF k = 0
             THEN AssembleFrom(Tail(ids), eligible, target, p, cur)
             ELSE LET d == eligible[k].duration_seconds
                      p1 == Append(p, ExerciseItem(eligible[k]))
                  IN  IF OverBudget(cur, d, target) THEN p
                      ELSE IF AIAddRest(cur + d, target)
                      THEN AssembleFrom(Tail(ids), eligible, target,
                                        Append(p1, RestItem),
                                        cur + d + REST_DURATION)
                      ELSE AssembleFrom(Tail(ids), eligible, target, p1,
                                        cur + d)

AssemblePlan(ids, eligible, target) ==
    AssembleFrom(ids, eligible, target, <<>>, 0)

\* TooShort accepting a plan of two exercises
TooShortBelowTwo(p) == ExerciseCount(p) < 2

\* if (plan.filter(p => p.type === 'exercise').length < 3)
TooShort(p) == ExerciseCount(p) < 3

\* lines 309-357: no ids, assembly, the too-short check, return plan
AIAssemble ==
    /\ pc = "assemble"
    /\ IF Len(selectedIds) = 0
       THEN StartFallback(filteredExercises)
       ELSE LET p == AssemblePlan(selectedIds, filteredExercises,
                                  targetDurationSeconds)
            IN  IF TooShort(p)
                THEN StartFallback(filteredExercises)
                ELSE /\ plan' = p
                     /\ Resolve(p, calls[Len(calls)])
                     /\ UNCHANGED <<exercises, shuffled, i, choices,
                                    selectedIds>>
    /\ UNCHANGED <<fetchVars, appVars, parseVars, playerVars>>
    /\ UNCHANGED <<catalogue, prefs, env, caller, allExercises,
                   filteredExercises, currentDuration, index, calls>>

\* FallbackShuffleStep swapping in the array passed in as well
FallbackShuffleStepInPlace ==
    /\ pc = "f_shuffle" /\ i > 0
    /\ \E j \in 0..i :
           /\ shuffled' = Swap(shuffled, i, j)
           /\ exercises' = Swap(exercises, i, j)
           /\ choices' = Append(choices, j)
    /\ i' = i - 1
    /\ UNCHANGED <<fetchVars, appVars, parseVars, playerVars>>
    /\ UNCHANGED <<catalogue, prefs, env, caller, pc, allExercises,
                   filteredExercises, plan, currentDuration, index,
                   selectedIds, calls, tier, result, outcome>>

\* fallbackGenerate, one iteration of its Fisher-Yates loop
FallbackShuffleStep ==
    /\ pc = "f_shuffle" /\ i > 0
    /\ \E j \in 0..i :
           /\ shuffled' = Swap(shuffled, i, j)
           /\ choices' = Append(choices, j)
    /\ i' = i - 1
    /\ UNCHANGED <<fetchVars, appVars, parseVars, playerVars>>
    /\ UNCHANGED <<catalogue, prefs, env, caller, pc, allExercises,
                   filteredExercises, exercises, plan, currentDuration, index,
                   selectedIds, calls, tier, result, outcome>>

\* fallbackGenerate: plan = [], currentDuration = 0, index = 0
FallbackShuffleDone ==
    /\ pc = "f_shuffle" /\ ~(i > 0)
    /\ plan' = <<>>
    /\ currentDuration' = 0
    /\ index' = 0
    /\ pc' = "f_pack"
    /\ UNCHANGED <<fetchVars, appVars, parseVars, playerVars>>
    /\ UNCHANGED <<catalogue, prefs, env, caller, allExercises,
                   filteredExercises, exercises, shuffled, i, choices,
                   selectedIds,
                   calls, tier, result, outcome>>

\* while (currentDuration < targetDurationSeconds && index < shuffled.length * 2)
FallbackLoopCond(cur, target, idx, n) == cur < target /\ idx < n * 2

\* if (currentDuration + REST_DURATION < targetDurationSeconds), fallback
FallbackAddRest(cur, target) == cur + REST_DURATION < target

\* one iteration of the body of the while loop of fallbackGenerate
FallbackPackStep ==
    /\ pc = "f_pack"
    /\ FallbackLoopCond(currentDuration, targetDurationSeconds, index,
                        Len(shuffled))
    /\ LET exercise == shuffled[(index % Len(shuffled)) + 1]
           cur == currentDuration + exercise.duration_seconds
           p == Append(plan, ExerciseItem(exercise))
       IN  IF cur >= targetDurationSeconds
           THEN /\ plan' = p
                /\ currentDuration' = cur
                /\ pc' = "f_return"
                /\ UNCHANGED index
           ELSE /\ IF FallbackAddRest(cur, targetDurationSeconds)
                   THEN /\ plan' = Append(p, RestItem)
                        /\ currentDuration' = cur + REST_DURATION
                   ELSE /\ plan' = p
                        /\ currentDuration' = cur
                /\ index' = index + 1
                /\ UNCHANGED pc
    /\ UNCHANGED <<fetchVars, appVars, parseVars, playerVars>>
    /\ UNCHANGED <<catalogue, prefs, env, caller, allExercises,
                   filteredExercises, exercises, shuffled, i, choices,
                   selectedIds,
                   calls, tier, result, outcome>>

\* FallbackReturn leaving the loop through its break only
FallbackReturnAfterBreak ==
    /\ pc = "f_return"
    /\ Resolve(plan, "local")
    /\ UNCHANGED <<fetchVars, appVars, parseVars, playerVars>>
    /\ UNCHANGED <<catalogue, prefs, env, caller, allExercises,
                   filteredExercises, exercises, shuffled, i, choices, plan,
                   currentDuration, index, selectedIds, calls>>

\* return plan (fallbackGenerate), returned as is by generateAIWorkoutPlan
FallbackReturn ==
    /\ \/ pc = "f_return"
       \/ /\ pc = "f_pack"
          /\ ~FallbackLoopCond(currentDuration, targetDurationSeconds, index,
                               Len(shuffled))
    /\ Resolve(plan, "local")
    /\ UNCHANGED <<fetchVars, appVars, parseVars, playerVars>>
    /\ UNCHANGED <<catalogue, prefs, env, caller, allExercises,
                   filteredExercises, exercises, shuffled, i, choices, plan,
                   currentDuration, index, selectedIds, calls>>

----------------------------------------------------------------------------

Next ==
    \/ EngineFilter
    \/ EngineShuffleStep
    \/ EngineShuffleDone
    \/ EnginePackStep
    \/ EngineReturn
    \/ AIFilter
    \/ AICallEdge
    \/ EdgeResponds
    \/ EdgeTimeout
    \/ AIEdgeCatch
    \/ AIDirectMode
    \/ DirectResponds
    \/ AIAssemble
    \/ FallbackShuffleStep
    \/ FallbackShuffleDone
    \/ FallbackPackStep
    \/ FallbackReturn

Spec == Init /\ [][Next]_vars

\* The event loop runs every continuation that is ready, and a timer that
\* was set fires: a step that is possible is eventually taken.
FairSpec == Spec /\ WF_vars(Next)

----------------------------------------------------------------------------
(* getAllExercises (services/exerciseService), called on its own *)

FetchInit ==
    /\ db \in Databases
    /\ fetchStatus = "pending"
    /\ catalogue = <<>>
    /\ pc = "get_start"
    /\ caller = "test"
    /\ prefs = [equipment |-> {"bodyweight"}, difficulty |-> "beginner",
                durationMinutes |-> 1]
    /\ env = [useEdge |-> TRUE, apiKey |-> FALSE]
    /\ allExercises = <<>>
    /\ filteredExercises = <<>>
    /\ exercises = <<>>
    /\ shuffled = <<>>
    /\ i = 0
    /\ plan = <<>>
    /\ currentDuration = 0
    /\ index = 0
    /\ selectedIds = <<>>
    /\ calls = <<>>
    /\ tier = "none"
    /\ result = <<>>
    /\ outcome = "pending"
    /\ choices = <<>>
    /\ currentScreen = "setup"
    /\ workoutPlan = <<>>
    /\ appPc = "idle"
    /\ user = FALSE
    /\ ParseIdle
    /\ PlayerIdle

\* the promise of getAllExercises resolves with value
ResolveFetch(value) ==
    /\ catalogue' = value
    /\ fetchStatus' = "resolved"
    /\ pc' = "get_done"

\* lines 10-20: the URL check, then the query is sent
GetAllExercisesStart ==
    /\ pc = "get_start"
    /\ IF db.supabaseUrl = ""
       THEN ResolveFetch(MOCK_EXERCISES)
       ELSE /\ pc' = "get_await"
            /\ UNCHANGED <<catalogue, fetchStatus>>
    /\ UNCHANGED <<parseVars, playerVars>>
    /\ UNCHANGED <<db, appVars, prefs, env, caller, allExercises,
                   filteredExercises, exercises, shuffled, i, plan,
                   currentDuration, index, selectedIds, calls, tier, result,
                   outcome, choices>>

\* lines 18-46: the query settles; a throw and a thrown { error } land in
\* the catch
GetAllExercisesSettle ==
    /\ pc = "get_await"
    /\ IF db.response.kind \in {"throws", "error"}
       THEN ResolveFetch(MOCK_EXERCISES)
       ELSE IF NoData(db.response)
       THEN ResolveFetch(MOCK_EXERCISES)
       ELSE ResolveFetch([k \in 1..Len(db.response.data) |->
                             Sanitize(db.response.data[k])])
    /\ UNCHANGED <<parseVars, playerVars>>
    /\ UNCHANGED <<db, appVars, prefs, env, caller, allExercises,
                   filteredExercises, exercises, shuffled, i, plan,
                   currentDuration, index, selectedIds, calls, tier, result,
                   outcome, choices>>

FetchNext ==
    \/ GetAllExercisesStart
    \/ GetAllExercisesSettle

FetchSpec == FetchInit /\ [][FetchNext]_vars

----------------------------------------------------------------------------
(* The Fisher-Yates loops on their own: shuffle(filtered) of the engine and *)
(* the loop of fallbackGenerate, over arrays of up to MaxShuffle exercises  *)
(* that all pass the filter.                                                *)

ShuffleInit ==
    /\ \E n \in 1..MaxShuffle :
           /\ catalogue = SubSeq(ExercisePool, 1, n)
           /\ i = n - 1
    /\ prefs = [equipment |-> {"bodyweight", "dumbbell"},
                difficulty |-> "advanced", durationMinutes |-> 1]
    /\ env = [useEdge |-> TRUE, apiKey |-> FALSE]
    /\ caller \in {"engine", "ai"}
    /\ pc = IF caller = "engine" THEN "e_shuffle" ELSE "f_shuffle"
    /\ allExercises = catalogue
    /\ filteredExercises = FilterExercises(catalogue, prefs)
    /\ exercises = IF caller = "engine" THEN <<>> ELSE filteredExercises
    /\ shuffled = filteredExercises
    /\ choices = <<>>
    /\ plan = <<>>
    /\ currentDuration = 0
    /\ index = 0
    /\ selectedIds = <<>>
    /\ calls = <<>>
    /\ tier = "none"
    /\ result = <<>>
    /\ outcome = "pending"
    /\ db = [supabaseUrl |-> "url", response |-> Rows(RawRows(catalogue))]
    /\ fetchStatus = "resolved"
    /\ currentScreen = "setup"
    /\ workoutPlan = <<>>
    /\ appPc = "idle"
    /\ user = FALSE
    /\ ParseIdle
    /\ PlayerIdle

ShuffleNext ==
    \/ EngineShuffleStep
    \/ EngineShuffleDone
    \/ FallbackShuffleStep
    \/ FallbackShuffleDone

ShuffleSpec == ShuffleInit /\ [][ShuffleNext]_vars

----------------------------------------------------------------------------
(* AppContent (App.tsx): one submission of the setup screen, with the       *)
(* header in reach while the plan is generated.  The edge function is the   *)
(* only AI transport configured (no VITE_GEMINI_API_KEY).                   *)

AppInit ==
    /\ catalogue \in Catalogues
    /\ prefs \in Preferences
    /\ env = [useEdge |-> TRUE, apiKey |-> FALSE]
    /\ caller = "ai"
    /\ pc = "idle"
    /\ user \in BOOLEAN
    /\ ParseIdle
    /\ PlayerIdle
    /\ currentScreen = "setup"
    /\ workoutPlan = <<>>
    /\ appPc = "idle"
    /\ allExercises = <<>>
    /\ filteredExercises = <<>>
    /\ exercises = <<>>
    /\ shuffled = <<>>
    /\ i = 0
    /\ plan = <<>>
    /\ currentDuration = 0
    /\ index = 0
    /\ selectedIds = <<>>
    /\ calls = <<>>
    /\ tier = "none"
    /\ result = <<>>
    /\ outcome = "pending"
    /\ choices = <<>>
    /\ db = [supabaseUrl |-> "url", response |-> Rows(RawRows(catalogue))]
    /\ fetchStatus = "resolved"

generatorVars ==
    <<catalogue, prefs, env, caller, allExercises, filteredExercises,
      exercises, shuffled, i, plan, currentDuration, index, selectedIds,
      calls, tier, result, outcome, choices, fetchVars>>

\* handleSetupComplete up to its first await: setCurrentScreen('generating')
\* and the 1500 ms timer
HandleSetupComplete ==
    /\ appPc = "idle" /\ currentScreen = "setup"
    /\ currentScreen' = "generating"
    /\ appPc' = "timer"
    /\ UNCHANGED <<workoutPlan, user, pc, generatorVars>>
    /\ UNCHANGED <<parseVars, playerVars>>

\* the timer fires: generateAIWorkoutPlan(prefs) is called and awaited
HandleSetupTimer ==
    /\ appPc = "timer"
    /\ appPc' = "awaiting"
    /\ pc' = "start"
    /\ UNCHANGED <<currentScreen, workoutPlan, user, generatorVars>>
    /\ UNCHANGED <<parseVars, playerVars>>

\* the await settles: setWorkoutPlan(plan), setCurrentScreen('overview'),
\* or the catch block
HandleSetupResume ==
    /\ appPc = "awaiting" /\ pc = "done"
    /\ IF outcome = "resolved"
       THEN /\ workoutPlan' = result
            /\ currentScreen' = "overview"
       ELSE /\ currentScreen' = IF user THEN "dashboard" ELSE "home"
            /\ UNCHANGED workoutPlan
    /\ appPc' = "finished"
    /\ UNCHANGED <<user, pc, generatorVars>>
    /\ UNCHANGED <<parseVars, playerVars>>

\* the screens the buttons of Header lead to: the logo, then the buttons of
\* a member or the one of a guest
HeaderTargets ==
    IF user THEN {"dashboard", "profile"} ELSE {"home", "login"}

\* a click on a button of Header, rendered on every screen but 'workout'
HeaderClick ==
    /\ currentScreen # "workout"
    /\ \E screen \in HeaderTargets : currentScreen' = screen
    /\ UNCHANGED <<workoutPlan, appPc, user, pc, generatorVars>>
    /\ UNCHANGED <<parseVars, playerVars>>

AppNext ==
    \/ HandleSetupComplete
    \/ HandleSetupTimer
    \/ HandleSetupResume
    \/ HeaderClick
    \/ AIFilter
    \/ AICallEdge
    \/ EdgeResponds
    \/ EdgeTimeout
    \/ AIEdgeCatch
    \/ AIAssemble
    \/ FallbackShuffleStep
    \/ FallbackShuffleDone
    \/ FallbackPackStep
    \/ FallbackReturn

AppSpec == AppInit /\ [][AppNext]_vars

----------------------------------------------------------------------------
(* The eligibility filter on its own: a catalogue of one exercise whose     *)
(* tag list is any list of up to MaxTags equipment and difficulty tags, or  *)
(* the tag list convertDbToTags makes of a database row.                    *)

FacetTags ==
    { Tag("equipment", v) : v \in {"tushou", "yaling", "barbell"} }
    \cup { Tag("difficulty", v) : v \in {"chujie", "zhongjie", "gaojie"} }

TagLists == UNION { [1..n -> FacetTags] : n \in 0..MaxTags }

\* rows of the exercises table, as far as convertDbToTags reads them
DbRows ==
    [difficulty : {"", "beginner", "advanced", "expert"},
     training_goals : {<<>>, <<"strength">>, <<"mobility">>},
     equipment : {<<>>, <<"dumbbell">>, <<"barbell", "bench">>},
     target_muscles : {<<>>, <<"core">>, <<"full_body">>}]

\* difficultyMap[dbRow.difficulty] || dbRow.difficulty
DifficultyLabel(d) ==
    IF d = "beginner" THEN "chujie"
    ELSE IF d = "intermediate" THEN "zhongjie"
    ELSE IF d = "advanced" THEN "gaojie"
    ELSE d

\* goalMap[goal] || goal
GoalLabel(g) ==
    IF g \in {"strength", "muscle_gain"} THEN "zengji"
    ELSE IF g = "fat_loss" THEN "jianzhi"
    ELSE IF g = "endurance" THEN "suxing"
    ELSE g

\* convertDbToTags(dbRow); target_muscles is <<>> for an array without
\* 'core' and 'full_body'
convertDbToTags(dbRow) ==
    LET difficulty ==
            IF dbRow.difficulty = "" THEN <<>>
            ELSE <<Tag("difficulty", DifficultyLabel(dbRow.difficulty))>>
        goals ==
            Dedupe([k \in 1..Len(dbRow.training_goals) |->
                       Tag("goal", GoalLabel(dbRow.training_goals[k]))])
        equipment ==
            IF Len(dbRow.equipment) > 0
            THEN [k \in 1..Len(dbRow.equipment) |->
                     Tag("equipment", dbRow.equipment[k])]
            ELSE <<Tag("equipment", "tushou")>>
        type ==
            IF \E k \in 1..Len(dbRow.target_muscles) :
                   dbRow.target_muscles[k] = "core"
            THEN <<Tag("type", "hexin")>>
            ELSE IF \E k \in 1..Len(dbRow.target_muscles) :
                        dbRow.target_muscles[k] = "full_body"
                 THEN <<Tag("type", "youyang")>>
                 ELSE <<Tag("type", "jili")>>
    IN  difficulty \o goals \o equipment \o type

FilterInit ==
    /\ \E tags \in TagLists \cup { convertDbToTags(row) : row \in DbRows } :
           catalogue = <<Exercise("t", "tagged", 30, tags)>>
    /\ prefs \in Preferences
    /\ caller \in {"engine", "ai"}
    /\ env = [useEdge |-> TRUE, apiKey |-> FALSE]
    /\ pc = "start"
    /\ allExercises = <<>>
    /\ filteredExercises = <<>>
    /\ exercises = <<>>
    /\ shuffled = <<>>
    /\ i = 0
    /\ plan = <<>>
    /\ currentDuration = 0
    /\ index = 0
    /\ selectedIds = <<>>
    /\ calls = <<>>
    /\ tier = "none"
    /\ result = <<>>
    /\ outcome = "pending"
    /\ choices = <<>>
    /\ db = [supabaseUrl |-> "url", response |-> Rows(RawRows(catalogue))]
    /\ fetchStatus = "resolved"
    /\ currentScreen = "setup"
    /\ workoutPlan = <<>>
    /\ appPc = "idle"
    /\ user = FALSE
    /\ ParseIdle
    /\ PlayerIdle

FilterNext ==
    \/ EngineFilter
    \/ AIFilter

FilterSpec == FilterInit /\ [][FilterNext]_vars

----------------------------------------------------------------------------
(* The packing loops on their own: the loop of generateWorkoutPlan over a   *)
(* non-empty list of exercises of positive length, and the loop of          *)
(* fallbackGenerate over any list of up to MaxPack exercises, exercises of  *)
(* length 0 and the empty list included.  The loops are synchronous code:   *)
(* an iteration that can run does run.                                      *)

PackPool == <<
    Exercise("z", "hold", 0,
             <<Tag("equipment", "tushou"), Tag("difficulty", "chujie")>>),
    ExercisePool[1],
    ExercisePool[2] >>

PackLists ==
    UNION { [1..n -> { PackPool[k] : k \in 1..Len(PackPool) }] :
                n \in 0..MaxPack }

PackInit ==
    /\ caller \in {"engine", "ai"}
    /\ shuffled \in PackLists
    /\ caller = "engine" =>
           /\ shuffled # <<>>
           /\ \A k \in 1..Len(shuffled) : shuffled[k].duration_seconds > 0
    /\ catalogue = IF shuffled = <<>> THEN <<ExercisePool[3]>> ELSE shuffled
    /\ \E d \in {1, MaxMinutes} :
           prefs = [equipment |-> {"bodyweight"}, difficulty |-> "beginner",
                    durationMinutes |-> d]
    /\ env = [useEdge |-> TRUE, apiKey |-> FALSE]
    /\ pc = IF caller = "engine" THEN "e_pack" ELSE "f_pack"
    /\ allExercises = catalogue
    /\ filteredExercises = shuffled
    /\ exercises = IF caller = "engine" THEN <<>> ELSE shuffled
    /\ i = 0
    /\ choices = <<>>
    /\ plan = <<>>
    /\ currentDuration = 0
    /\ index = 0
    /\ selectedIds = <<>>
    /\ calls = <<>>
    /\ tier = "none"
    /\ result = <<>>
    /\ outcome = "pending"
    /\ db = [supabaseUrl |-> "url", response |-> Rows(RawRows(catalogue))]
    /\ fetchStatus = "resolved"
    /\ currentScreen = "setup"
    /\ workoutPlan = <<>>
    /\ appPc = "idle"
    /\ user = FALSE
    /\ ParseIdle
    /\ PlayerIdle

PackNext ==
    \/ EnginePackStep
    \/ EngineReturn
    \/ FallbackPackStep
    \/ FallbackReturn

PackSpec == PackInit /\ [][PackNext]_vars /\ WF_vars(PackNext)

----------------------------------------------------------------------------
(* The two response parsers on their own: parseExerciseIds of the client    *)
(* and the parsing block of the edge function, run one after the other on   *)
(* the same response text, any text of up to MaxText tokens.                *)

TextTokens == {LB, RB, COMMA, WORD, NUM, Str("1"), Str("u4"), Uuid("ux")}

Texts == UNION { [1..n -> TextTokens] : n \in 0..MaxText }

\* generateWorkoutPlan / generateAIWorkoutPlan is not being called
NoCall ==
    /\ catalogue = <<ExercisePool[1]>>
    /\ prefs = [equipment |-> {"bodyweight"}, difficulty |-> "beginner",
                durationMinutes |-> 1]
    /\ env = [useEdge |-> TRUE, apiKey |-> FALSE]
    /\ caller = "test"
    /\ allExercises = <<>>
    /\ filteredExercises = <<>>
    /\ exercises = <<>>
    /\ shuffled = <<>>
    /\ i = 0
    /\ plan = <<>>
    /\ currentDuration = 0
    /\ index = 0
    /\ selectedIds = <<>>
    /\ calls = <<>>
    /\ tier = "none"
    /\ result = <<>>
    /\ outcome = "pending"
    /\ choices = <<>>
    /\ db = [supabaseUrl |-> "url", response |-> Rows(RawRows(catalogue))]
    /\ fetchStatus = "resolved"
    /\ appPc = "idle"
    /\ user = FALSE

ParseInit ==
    /\ NoCall
    /\ responseText \in Texts
    /\ clientIds = <<>>
    /\ edgeIds = <<>>
    /\ pc = "c_json"
    /\ currentScreen = "setup"
    /\ workoutPlan = <<>>
    /\ PlayerIdle

\* what the parsers leave alone
notParsed ==
    <<catalogue, prefs, env, caller, allExercises, filteredExercises,
      exercises, shuffled, i, plan, currentDuration, index, selectedIds,
      calls, tier, result, outcome, choices, fetchVars, appVars, playerVars,
      responseText>>

\* parseExerciseIds, first pass: return the strings of the matched array when
\* it parses
ClientParseJson ==
    /\ pc = "c_json"
    /\ LET m == jsonMatch(responseText)
       IN  IF m.found /\ JsonParses(m.inner)
           THEN /\ clientIds' = StringElements(m.inner)
                /\ pc' = "e_json"
           ELSE /\ pc' = "c_uuid"
                /\ UNCHANGED clientIds
    /\ UNCHANGED <<notParsed, edgeIds>>

\* parseExerciseIds, second pass: return the UUID matches
ClientParseUuid ==
    /\ pc = "c_uuid"
    /\ clientIds' = UuidMatches(responseText)
    /\ pc' = "e_json"
    /\ UNCHANGED <<notParsed, edgeIds>>

\* edge function, first pass: selectedIds = the strings of the matched array
\* when it parses
EdgeParseJson ==
    /\ pc = "e_json"
    /\ LET m == jsonMatch(responseText)
       IN  edgeIds' = IF m.found /\ JsonParses(m.inner)
                      THEN StringElements(m.inner)
                      ELSE <<>>
    /\ pc' = "e_uuid"
    /\ UNCHANGED <<notParsed, clientIds>>

\* edge function, second pass: if (selectedIds.length === 0) the UUID matches
EdgeParseUuid ==
    /\ pc = "e_uuid"
    /\ edgeIds' = IF Len(edgeIds) = 0 THEN UuidMatches(responseText)
                  ELSE edgeIds
    /\ pc' = "parsed"
    /\ UNCHANGED <<notParsed, clientIds>>

ParseNext ==
    \/ ClientParseJson
    \/ ClientParseUuid
    \/ EdgeParseJson
    \/ EdgeParseUuid

ParseSpec == ParseInit /\ [][ParseNext]_vars

----------------------------------------------------------------------------
(* PlayerScreen (components/player/PlayerScreen), mounted by AppContent on  *)
(* the 'workout' screen with plan = workoutPlan, any plan of up to MaxPlay  *)
(* items.  A render is committed after every change of state; its effects   *)
(* then run together, each with the values of that render.  The user        *)
(* pauses and skips between two renders.                                    *)

PlayerItems ==
    { ExerciseItem(Exercise("p1", "plank", 2,
                            <<Tag("equipment", "tushou"),
                              Tag("difficulty", "chujie")>>)),
      ExerciseItem(Exercise("p2", "lunge", 3,
                            <<Tag("equipment", "tushou"),
                              Tag("difficulty", "chujie")>>)),
      RestItem }

PlayerPlans == UNION { [1..n -> PlayerItems] : n \in 1..MaxPlay }

PlayerInit ==
    /\ NoCall
    /\ ParseIdle
    /\ pc = "idle"
    /\ currentScreen = "workout"
    /\ workoutPlan \in PlayerPlans
    /\ playerPc = "effects"
    /\ currentIndex = 0
    /\ timeLeft = workoutPlan[1].duration
    /\ isPaused = FALSE
    /\ elapsedSeconds = 0
    /\ completedExercises = 0
    /\ skippedExercises = {}
    /\ renderedIndex = -1
    /\ completedExerciseCount = 0
    /\ actualDurationSeconds = 0
    /\ skipUsed = FALSE
    /\ counted = 0
    /\ playedToEnd = {}

\* const currentItem = plan[currentIndex]
currentItem == workoutPlan[currentIndex + 1]

\* what the player leaves alone
notPlayed ==
    <<catalogue, prefs, env, caller, pc, allExercises, filteredExercises,
      exercises, shuffled, i, plan, currentDuration, index, selectedIds,
      calls, tier, result, outcome, choices, fetchVars, parseVars,
      workoutPlan, appPc, user>>

\* onComplete = handleWorkoutFinish(completedIndex, elapsedSeconds); the
\* 'completed' screen replaces the player
OnComplete(completedIndex, elapsed) ==
    /\ completedExerciseCount' = completedIndex
    /\ actualDurationSeconds' = elapsed
    /\ currentScreen' = "completed"
    /\ playerPc' = "unmounted"

\* the effect that initialises the item runs on mount and when currentIndex
\* has changed
InitEffectRuns == renderedIndex # currentIndex

\* the timer effect takes its else branch: not paused and not timeLeft > 0,
\* timeLeft being the value of the render the effect belongs to
TimerExpired == ~isPaused /\ ~(timeLeft > 0)

\* the effects of one render: setTimeLeft(currentItem.duration) when the
\* item is new, and the timer effect, which arms the 1000 ms timer or, at
\* timeLeft 0, counts the item and moves on or calls onComplete
RunEffects ==
    /\ playerPc = "effects"
    /\ renderedIndex' = currentIndex
    /\ timeLeft' = IF InitEffectRuns THEN currentItem.duration ELSE timeLeft
    /\ IF TimerExpired
       THEN LET done == /\ currentItem.type = "exercise"
                        /\ currentIndex \notin skippedExercises
            IN  /\ completedExercises' =
                       IF done THEN completedExercises + 1
                       ELSE completedExercises
                /\ playedToEnd' =
                       IF counted = currentItem.duration
                       THEN playedToEnd \cup {currentIndex}
                       ELSE playedToEnd
                /\ IF currentIndex < Len(workoutPlan) - 1
                   THEN /\ currentIndex' = currentIndex + 1
                        /\ counted' = 0
                        /\ playerPc' = "effects"
                        /\ UNCHANGED <<completedExerciseCount,
                                       actualDurationSeconds, currentScreen>>
                   ELSE /\ OnComplete(IF done THEN completedExercises + 1
                                      ELSE completedExercises,
                                      elapsedSeconds)
                        /\ UNCHANGED <<currentIndex, counted>>
       ELSE /\ playerPc' = IF timeLeft' # timeLeft THEN "effects" ELSE "idle"
            /\ UNCHANGED <<completedExercises, playedToEnd, currentIndex,
                           counted, completedExerciseCount,
                           actualDurationSeconds, currentScreen>>
    /\ UNCHANGED <<notPlayed, isPaused, elapsedSeconds, skippedExercises,
                   skipUsed>>

\* the 1000 ms timer fires: setTimeLeft(prev => prev - 1),
\* setElapsedSeconds(prev => prev + 1)
Tick ==
    /\ playerPc = "idle" /\ ~isPaused /\ timeLeft > 0
    /\ timeLeft' = timeLeft - 1
    /\ elapsedSeconds' = elapsedSeconds + 1
    /\ counted' = counted + 1
    /\ playerPc' = "effects"
    /\ UNCHANGED <<notPlayed, currentScreen, currentIndex, isPaused,
                   completedExercises, skippedExercises, renderedIndex,
                   completedExerciseCount, actualDurationSeconds, skipUsed,
                   playedToEnd>>

\* togglePause
TogglePause ==
    /\ playerPc = "idle"
    /\ isPaused' = ~isPaused
    /\ playerPc' = "effects"
    /\ UNCHANGED <<notPlayed, currentScreen, currentIndex, timeLeft,
                   elapsedSeconds, completedExercises, skippedExercises,
                   renderedIndex, completedExerciseCount,
                   actualDurationSeconds, skipUsed, counted, playedToEnd>>

\* skipItem
SkipItem ==
    /\ playerPc = "idle"
    /\ skipUsed' = TRUE
    /\ skippedExercises' =
           IF currentItem.type = "exercise"
           THEN skippedExercises \cup {currentIndex}
           ELSE skippedExercises
    /\ IF currentIndex < Len(workoutPlan) - 1
       THEN /\ currentIndex' = currentIndex + 1
            /\ counted' = 0
            /\ playerPc' = "effects"
            /\ UNCHANGED <<completedExerciseCount, actualDurationSeconds,
                           currentScreen>>
       ELSE /\ OnComplete(completedExercises, elapsedSeconds)
            /\ UNCHANGED <<currentIndex, counted>>
    /\ UNCHANGED <<notPlayed, timeLeft, isPaused, elapsedSeconds,
                   completedExercises, renderedIndex, playedToEnd>>

PlayerNext ==
    \/ RunEffects
    \/ Tick
    \/ TogglePause
    \/ SkipItem

PlayerSpec == PlayerInit /\ [][PlayerNext]_vars

----------------------------------------------------------------------------
(* Properties *)

Done == pc = "done"

Items(p) == { p[k] : k \in 1..Len(p) }

ExerciseItems(p) == { it \in Items(p) : it.type = "exercise" }

\* the equipment facet as the tag classifier of the filter derives it
EquipmentFacet(ex) == EqId(getTagValue(ex.tags, "equipment"))

HasTag(ex, f, v) == \E k \in 1..Len(ex.tags) : ex.tags[k] = Tag(f, v)

NoAdjacentExercises(p) ==
    \A k \in 1..(Len(p) - 1) :
        ~(p[k].type = "exercise" /\ p[k + 1].type = "exercise")

StartsAndEndsOnExercise(p) ==
    p # <<>> => p[1].type = "exercise" /\ p[Len(p)].type = "exercise"

\* the list the local packer cycles over
Candidates == IF caller = "engine" THEN filteredExercises ELSE exercises

AIBuilt == tier \in {"edge", "direct"}

Abs(x) == IF x < 0 THEN 0 - x ELSE x

C2_DifficultyCeiling ==
    Done => \A it \in ExerciseItems(result) :
                /\ prefs.difficulty = "beginner" =>
                       HasTag(it.exercise, "difficulty", "chujie")
                /\ prefs.difficulty = "intermediate" =>
                       ~HasTag(it.exercise, "difficulty", "gaojie")

\* C3: a plan packed locally (the while loop of generateWorkoutPlan or of
\* fallbackGenerate) never has two adjacent exercise items.
C3_NoAdjacentExercisesLocal ==
    (Done /\ tier = "local") => NoAdjacentExercises(result)

\* C4: every non-empty plan packed locally starts with an exercise and ends
\* with an exercise, also when the 2-cycle bound stops the loop.
C4_NoLeadingOrTrailingRest ==
    (Done /\ tier = "local") => StartsAndEndsOnExercise(result)

\* C5: with a non-empty eligible set, generateAIWorkoutPlan never rejects and,
\* whatever the AI tiers did, resolves with a plan holding at least one
\* exercise item.
C5_FallbackTotality ==
    (caller = "ai" /\ filteredExercises # <<>>) =>
        /\ outcome # "rejected"
        /\ Done => (outcome = "resolved" /\ ExerciseCount(result) >= 1)

\* C5 witness: both AI transports were called, neither gave a usable plan,
\* and the local fallback produced the plan.
C5_Witness ==
    /\ Done /\ caller = "ai" /\ filteredExercises # <<>>
    /\ calls = <<"edge", "direct">>
    /\ tier = "local"
    /\ ExerciseCount(result) >= 1

\* C6, as claimed: the total duration of a locally packed plan over a
\* non-empty candidate list differs from the target by at most max(60, 30).
C6_BudgetTolerance ==
    (Done /\ tier = "local" /\ Candidates # <<>>) =>
        Abs(TotalDuration(result) - targetDurationSeconds) <= 60

LastExerciseDuration(p) ==
    LET ks == { k \in 1..Len(p) : p[k].type = "exercise" }
    IN  IF ks = {} THEN 0
        ELSE p[CHOOSE k \in ks : \A m \in ks : m <= k].duration

\* C6, amended: a locally packed plan over a non-empty candidate list
\* overshoots the target by less than the duration of its last exercise item;
\* it reaches the target when it comes from generateWorkoutPlan, or from
\* fallbackGenerate with fewer than 2n exercise items; so in those cases,
\* when no candidate is longer than 60 s, the total is within 60 s of the
\* target.
C6_BudgetAmended ==
    (Done /\ tier = "local" /\ Candidates # <<>>) =>
        LET total == TotalDuration(result)
            reached == \/ caller = "engine"
                       \/ ExerciseCount(result) < 2 * Len(Candidates)
            short == \A k \in 1..Len(Candidates) :
                         Candidates[k].duration_seconds <= 60
        IN  /\ total - targetDurationSeconds < LastExerciseDuration(result)
            /\ reached => total >= targetDurationSeconds
            /\ (reached /\ short) =>
                   Abs(total - targetDurationSeconds) < 60

\* C6 witness: a locally packed plan that ran past the target.
C6_Witness ==
    /\ Done /\ tier = "local" /\ Candidates # <<>>
    /\ TotalDuration(result) > targetDurationSeconds

\* C7: a plan returned from an AI tier is non-empty, starts and ends with an
\* exercise item and has no two adjacent exercise items.
C7_AIPlanStructure ==
    (Done /\ AIBuilt) =>
        /\ result # <<>>
        /\ StartsAndEndsOnExercise(result)
        /\ NoAdjacentExercises(result)

\* an exercise that counts as bodyweight, by its tag or by its facet
IsBodyweight(ex) ==
    HasTag(ex, "equipment", "tushou") \/ EquipmentFacet(ex) = "bodyweight"

\* C8: when the filter yields nothing, the returned plan is built only from
\* bodyweight exercises of the catalogue and is non-empty when the catalogue
\* holds a bodyweight exercise.
C8_WideningToBodyweight ==
    (Done /\ filteredExercises = <<>>) =>
        /\ \A it \in ExerciseItems(result) :
               /\ it.exercise \in Items(allExercises)
               /\ IsBodyweight(it.exercise)
        /\ (\E ex \in Items(allExercises) : HasTag(ex, "equipment", "tushou"))
               => result # <<>>

\* C9: when the filter yields nothing and the catalogue holds no bodyweight
\* exercise, the caller gets a NoEligibleExercises outcome (a rejection, or at
\* the least no plan item) and not a plan.
C9_NoEligibleSurfaced ==
    (Done /\ filteredExercises = <<>>
          /\ \A ex \in Items(allExercises) : ~IsBodyweight(ex)) =>
        (outcome = "rejected" \/ result = <<>>)

\* C10: in every returned plan a rest item lasts 30 s and references no
\* exercise; an exercise item references an exercise of the catalogue, lasts
\* that exercise's duration_seconds (> 0) and is titled with its name.
C10_ItemsWellFormed ==
    Done => \A it \in Items(result) :
                /\ it.type \in {"exercise", "rest"}
                /\ it.type = "rest" =>
                       it.duration = 30 /\ it.exercise = NoExercise
                /\ it.type = "exercise" =>
                       /\ it.exercise \in Items(allExercises)
                       /\ it.duration = it.exercise.duration_seconds
                       /\ it.duration > 0
                       /\ it.title = it.exercise.name

\* C10 witness: a returned plan holding both a rest and an exercise item.
C10_Witness ==
    /\ Done
    /\ \E it \in Items(result) : it.type = "rest"
    /\ \E it \in Items(result) : it.type = "exercise"

\* the ids of the exercise items of a plan, in order
ExerciseIdsOf(p) ==
    LET items == SelectSeq(p, LAMBDA it : it.type = "exercise")
    IN  [k \in 1..Len(items) |-> items[k].exercise.id]

IsPrefix(s, t) == Len(s) <= Len(t) /\ s = SubSeq(t, 1, Len(s))

\* C11: every exercise item of a plan assembled from the ids of an AI tier
\* references an exercise of the filtered set; the items follow, in order,
\* the returned ids that name a filtered exercise, so an id naming none
\* contributes no item; and such ids never make the call reject.
C11_AIIdsOnlyHint ==
    /\ caller = "ai" => outcome # "rejected"
    /\ (Done /\ AIBuilt) =>
           /\ \A it \in ExerciseItems(result) :
                  it.exercise \in Items(filteredExercises)
           /\ IsPrefix(ExerciseIdsOf(result),
                       SelectSeq(selectedIds,
                           LAMBDA id : id \in IdsOf(filteredExercises)))

\* C11 witness: an AI tier returned a list holding an id that names no
\* filtered exercise, and the plan assembled from that list was returned.
C11_Witness ==
    /\ Done /\ AIBuilt
    /\ \E k \in 1..Len(selectedIds) :
           selectedIds[k] \notin IdsOf(filteredExercises)
    /\ ExerciseCount(result) >= 3

\* the plan the assembly loop builds from the ids held in selectedIds
AssembledNow ==
    AssemblePlan(selectedIds, filteredExercises, targetDurationSeconds)

\* C12: a plan returned from an AI tier holds at least 3 exercise items; and
\* when the plan assembled from the returned ids holds fewer than 3 (unknown
\* ids dropped, time-budget cut applied), the call does not return it: it
\* goes on to fallbackGenerate over the filtered set, whose plan is returned
\* as the local tier's.
C12_MinimumViableAIResult ==
    /\ [](Done /\ AIBuilt => ExerciseCount(result) >= 3)
    /\ [][(pc = "assemble" /\ ExerciseCount(AssembledNow) < 3) =>
              /\ pc' = "f_shuffle"
              /\ outcome' = "pending"
              /\ exercises' = filteredExercises]_vars
    /\ [](pc \in {"f_shuffle", "f_pack", "f_return"} => tier = "none")
    /\ [][(pc \in {"f_pack", "f_return"} /\ pc' = "done") =>
              tier' = "local"]_vars

\* C12 witness: an AI tier returned ids, of which exactly three made it into
\* the plan, and that plan was returned.
C12_Witness ==
    /\ Done /\ AIBuilt
    /\ ExerciseCount(result) = 3
    /\ selectedIds # <<>>

\* the rows of a response with missing tags replaced by an empty array
TagsForced(data) ==
    [k \in 1..Len(data) |->
        [id |-> data[k].id, name |-> data[k].name,
         duration_seconds |-> data[k].duration_seconds,
         tags |-> IF data[k].tags.array THEN data[k].tags.value ELSE <<>>]]

ChoiceSeqs(n) ==
    IF n <= 1 THEN {<<>>}
    ELSE { js \in [1..(n - 1) -> 0..(n - 1)] :
               \A k \in 1..(n - 1) : js[k] <= n - k }

\* all orderings of the elements of an array of distinct elements
PermutationsOf(a) ==
    { [k \in 1..Len(a) |-> a[f[k]]] :
          f \in { g \in [1..Len(a) -> 1..Len(a)] :
                      \A x, y \in 1..Len(a) : g[x] = g[y] => x = y } }

ShuffleReturned == pc \in {"e_pack", "f_pack"}

\* C14: the Fisher-Yates loop of shuffle and of fallbackGenerate keeps the
\* length and the elements of its input and never writes to the input array;
\* what it returns is the input rearranged by the indices it drew, no other
\* sequence of draws gives the same array, and the draws together give every
\* permutation of the input.
C14_ShuffleIsPermutation ==
    /\ [](/\ Len(shuffled) = Len(Candidates)
          /\ Items(shuffled) = Items(Candidates)
          /\ Candidates = catalogue)
    /\ [][Candidates' = Candidates]_vars
    /\ [](ShuffleReturned =>
             LET n == Len(Candidates)
                 images == { shuffle(Candidates, js) : js \in ChoiceSeqs(n) }
             IN  /\ choices \in ChoiceSeqs(n)
                 /\ shuffled = shuffle(Candidates, choices)
                 /\ \A js \in ChoiceSeqs(n) :
                        shuffle(Candidates, js) = shuffled => js = choices
                 /\ images = PermutationsOf(Candidates)
                 /\ shuffled \in PermutationsOf(Candidates))

\* C14 witness: the loop of fallbackGenerate returned an array of at least
\* three exercises in which no element kept its place.
C14_Witness ==
    /\ pc = "f_pack"
    /\ Len(shuffled) >= 3
    /\ \A k \in 1..Len(shuffled) : shuffled[k] # exercises[k]

\* the exercises of the catalogue the filter keeps under difficulty d and
\* the equipment set of prefs
EligibleUnder(d) ==
    Items(FilterExercises(catalogue, [prefs EXCEPT !.difficulty = d]))

\* C15: for the catalogue and the equipment set of the call, the exercises
\* the filter keeps under 'beginner' are among those it keeps under
\* 'intermediate', which are among those it keeps under 'advanced'; the
\* filtered list of the call is the one of its own difficulty.
C15_DifficultyMonotonic ==
    /\ EligibleUnder("beginner") \subseteq EligibleUnder("intermediate")
    /\ EligibleUnder("intermediate") \subseteq EligibleUnder("advanced")
    /\ pc # "start" =>
           Items(filteredExercises) = EligibleUnder(prefs.difficulty)

\* C15 witness: a 'beginner' call whose filtered list is not empty and lacks
\* an exercise that 'advanced' would have kept.
C15_Witness ==
    /\ pc # "start"
    /\ prefs.difficulty = "beginner"
    /\ filteredExercises # <<>>
    /\ EligibleUnder("beginner") # EligibleUnder("advanced")

\* a request to the direct provider is in the list of requests issued
DirectCalled(cs) == \E k \in 1..Len(cs) : cs[k] = "direct"

InFallback == pc \in {"f_shuffle", "f_pack", "f_return"}

\* C16: with a key configured, whenever the edge tier fails in any way
\* (Supabase unconfigured, invoke error, bad shape, no id, fewer than 3
\* usable ids), the direct provider has been called by the time
\* fallbackGenerate runs.
C16_EdgeFailureLeadsToDirect ==
    (caller = "ai" /\ env.useEdge /\ env.apiKey
        /\ filteredExercises # <<>> /\ InFallback) => DirectCalled(calls)

\* the step issues the request to the direct provider
IssuesDirect == calls' # calls /\ calls'[Len(calls')] = "direct"

\* C17, as claimed: under every configuration the request to the direct
\* provider is issued only from the handler of a failed edge attempt.
C17_DirectOnlyAfterEdgeFailure ==
    [][IssuesDirect => pc = "edge_catch"]_vars

\* C17, amended: when shouldUseEdgeFunction() is true the request to the
\* direct provider is issued only from the handler of a failed
\* callEdgeFunction, which is entered only from the edge attempt; when it is
\* false the request is issued first, with no edge attempt; either way at
\* most once.
C17_DirectAfterEdgeFailureInEdgeMode ==
    /\ [][IssuesDirect =>
              /\ ~DirectCalled(calls)
              /\ IF env.useEdge THEN pc = "edge_catch"
                 ELSE pc = "ai_try" /\ calls = <<>>]_vars
    /\ [][(pc' = "edge_catch" /\ pc # "edge_catch") =>
              /\ env.useEdge
              /\ pc \in {"ai_try", "edge_wait", "edge_silent"}]_vars
    /\ [](pc = "edge_catch" => ~DirectCalled(calls))

\* C17 witness: the edge request failed and the direct request is out.
C17_Witness ==
    /\ pc = "direct_wait"
    /\ env.useEdge
    /\ calls = <<"edge", "direct">>

\* C18: without a key no request to the direct provider is ever issued; a
\* failed edge attempt then goes to fallbackGenerate over the filtered set
\* with no further request, as does the direct mode, and the plan returned
\* is the edge tier's or the local one.
C18_NoDirectCallWithoutKey ==
    /\ [](~env.apiKey => ~DirectCalled(calls))
    /\ [][(~env.apiKey /\ (pc = "edge_catch"
                               \/ (pc = "ai_try" /\ ~env.useEdge))) =>
              /\ pc' = "f_shuffle"
              /\ exercises' = filteredExercises
              /\ calls' = calls]_vars
    /\ []((Done /\ caller = "ai" /\ ~env.apiKey) =>
              tier \in {"edge", "local"})

\* C18 witness: no key, the edge request was made and gave no plan, nothing
\* else was requested, and the local fallback produced the plan.
C18_Witness ==
    /\ Done /\ caller = "ai"
    /\ ~env.apiKey /\ env.useEdge
    /\ calls = <<"edge">>
    /\ tier = "local"
    /\ ExerciseCount(result) >= 1

\* C19: every call of generateAIWorkoutPlan eventually settles, also when
\* the edge function or the direct provider never answers the request.
C19_EventuallySettles ==
    (caller = "ai" /\ pc = "start") ~> Done

\* C20: when the screen is no longer 'generating' at the time the awaited
\* generateAIWorkoutPlan settles, the resumed handleSetupComplete changes
\* neither currentScreen nor workoutPlan.
C20_AbandonedRequestMutatesNothing ==
    [][(appPc = "awaiting" /\ appPc' = "finished"
           /\ currentScreen # "generating") =>
          (currentScreen' = currentScreen /\ workoutPlan' = workoutPlan)]_vars

\* C21: a locally packed plan (generateWorkoutPlan or fallbackGenerate) over
\* n candidate exercises holds at most 2 * n exercise items.
C21_PackingBoundedToTwoCycles ==
    (Done /\ tier = "local" /\ Candidates # <<>>) =>
        ExerciseCount(result) <= 2 * Len(Candidates)

\* the eligibility filter has run on the catalogue
Filtered == pc # "start" /\ allExercises = catalogue

\* the values of the tags of one facet, in the order of the tag list
FacetValues(ex, f) ==
    LET ts == SelectSeq(ex.tags, LAMBDA t : t.facet = f)
    IN  [k \in 1..Len(ts) |-> ts[k].value]

Admitted(ex) == \E k \in 1..Len(filteredExercises) : filteredExercises[k] = ex

EquipmentMatches(ex) ==
    EqId(getTagValue(ex.tags, "equipment")) \in prefs.equipment

\* C24: an exercise without an equipment tag is kept by the
\* filter whenever 'bodyweight' is in prefs.equipment (and its difficulty
\* passes), and an exercise without a difficulty tag is kept under every
\* difficulty ceiling once its equipment matches.
C24_MissingTagsPermissive ==
    Filtered =>
        \A k \in 1..Len(allExercises) :
            LET ex == allExercises[k]
            IN  /\ ( /\ FacetValues(ex, "equipment") = <<>>
                     /\ "bodyweight" \in prefs.equipment
                     /\ DifficultyOk(prefs.difficulty,
                                     getTagValue(ex.tags, "difficulty")) )
                       => Admitted(ex)
                /\ ( /\ FacetValues(ex, "difficulty") = <<>>
                     /\ EquipmentMatches(ex) )
                       => Admitted(ex)

\* C25: for an exercise with several tags of one facet, the filter keeps it
\* exactly when, on each facet, at least one of its tag values is
\* acceptable (a facet without tag counts as the filter counts it).
C25_MultiValuedFacets ==
    Filtered =>
        \A k \in 1..Len(allExercises) :
            LET ex == allExercises[k]
                eqs == FacetValues(ex, "equipment")
                diffs == FacetValues(ex, "difficulty")
                eqOk == IF eqs = <<>> THEN EqId("null") \in prefs.equipment
                        ELSE \E j \in 1..Len(eqs) :
                                 EqId(eqs[j]) \in prefs.equipment
                diffOk == IF diffs = <<>>
                          THEN DifficultyOk(prefs.difficulty, "null")
                          ELSE \E j \in 1..Len(diffs) :
                                   DifficultyOk(prefs.difficulty, diffs[j])
            IN  (Len(eqs) >= 2 \/ Len(diffs) >= 2) =>
                    (Admitted(ex) <=> (eqOk /\ diffOk))

\* C26: for prefs.equipment = {bodyweight}, every exercise the filter keeps
\* has no equipment tag or has the bodyweight label as its equipment tag.
C26_OnlyBodyweightCountsAsBodyweight ==
    (Filtered /\ prefs.equipment = {"bodyweight"}) =>
        \A k \in 1..Len(filteredExercises) :
            getTagValue(filteredExercises[k].tags, "equipment")
                \in {"null", "tushou"}

\* plan p is within the overshoot guard and has no rest item appended once
\* the elapsed time plus the rest reaches the target
WithinGuard(p, target) ==
    /\ TotalDuration(p) <= target + 60
    /\ \A k \in 1..Len(p) :
           p[k].type = "rest" =>
               TotalDuration(SubSeq(p, 1, k - 1)) + REST_DURATION < target

\* C27: the plan the AI assembly loop builds from any id list, and every
\* plan returned from an AI tier, lasts at most target + 60 s and has no
\* rest item appended once elapsed + 30 s reaches the target.
C27_AIOvershootGuard ==
    /\ (pc = "assemble" /\ selectedIds # <<>>) =>
           WithinGuard(AssembledNow, targetDurationSeconds)
    /\ (Done /\ AIBuilt) => WithinGuard(result, targetDurationSeconds)

\* C27 witness: the assembly loop is about to run on ids whose second
\* exercise would pass target + 60 s, so that the guard cuts the plan.
C27_Witness ==
    /\ pc = "assemble"
    /\ Len(selectedIds) >= 2
    /\ \A k \in 1..Len(selectedIds) :
           selectedIds[k] \in IdsOf(filteredExercises)
    /\ ExerciseCount(AssembledNow) = 1
    /\ TotalDuration(AssembledNow) > targetDurationSeconds

\* C28: the array getAllExercises returned (catalogue) keeps its elements and
\* their order through every step of generateWorkoutPlan and
\* generateAIWorkoutPlan; so do the names that refer to the same array:
\* allExercises, and the argument of fallbackGenerate in the empty-filter
\* branch, whose shuffle writes a copy.
C28_CatalogueNeverMutated ==
    /\ [][catalogue' = catalogue]_vars
    /\ [](allExercises # <<>> => allExercises = catalogue)
    /\ []((InFallback /\ filteredExercises = <<>>) => exercises = catalogue)

\* C28 witness: fallbackGenerate was given the whole catalogue (the filter
\* kept nothing) and its shuffle has put the copy in another order.
C28_Witness ==
    /\ pc = "f_pack"
    /\ filteredExercises = <<>>
    /\ exercises = catalogue
    /\ shuffled # catalogue

\* C29: the packing loop of generateWorkoutPlan (non-empty list, durations
\* above 0) and the packing loop of fallbackGenerate (any list, durations of
\* 0 and the empty list included) are left after finitely many iterations:
\* from the start of the loop the function always gets to its return.
C29_LocalPackingTerminates ==
    (pc \in {"e_pack", "f_pack"}) ~> Done

\* C29 witness: fallbackGenerate returned after two rounds over exercises of
\* length 0, with the elapsed time (rests only) still under the target.
C29_Witness ==
    /\ Done /\ caller = "ai"
    /\ shuffled # <<>>
    /\ \A k \in 1..Len(shuffled) : shuffled[k].duration_seconds = 0
    /\ TotalDuration(result) < targetDurationSeconds
    /\ ExerciseCount(result) = 2 * Len(shuffled)

\* the text is a JSON value / a comma-separated list of JSON values
RECURSIVE IsJsonValue(_), IsJsonList(_)
IsJsonValue(ts) ==
    \/ Len(ts) = 1 /\ ts[1].k \in {"str", "num"}
    \/ /\ Len(ts) >= 2
       /\ ts[1] = LB /\ ts[Len(ts)] = RB
       /\ Len(ts) = 2 \/ IsJsonList(SubSeq(ts, 2, Len(ts) - 1))

IsJsonList(ts) ==
    \/ IsJsonValue(ts)
    \/ \E k \in 2..(Len(ts) - 1) :
           /\ ts[k] = COMMA
           /\ IsJsonValue(SubSeq(ts, 1, k - 1))
           /\ IsJsonList(SubSeq(ts, k + 1, Len(ts)))

\* the array literals of a text, as pairs of the positions of their brackets
ArrayLiterals(text) ==
    { ab \in (1..Len(text)) \X (1..Len(text)) :
          /\ ab[1] < ab[2]
          /\ text[ab[1]] = LB
          /\ IsJsonValue(SubSeq(text, ab[1], ab[2])) }

\* the strings among the elements of a list of JSON values
RECURSIVE TopStrings(_)
TopStrings(ts) ==
    IF ts = <<>> THEN <<>>
    ELSE LET k == CHOOSE k \in 1..Len(ts) :
                      /\ IsJsonValue(SubSeq(ts, 1, k))
                      /\ \/ k = Len(ts)
                         \/ /\ k + 1 < Len(ts)
                            /\ ts[k + 1] = COMMA
                            /\ IsJsonList(SubSeq(ts, k + 2, Len(ts)))
             first == IF k = 1 /\ ts[1].k = "str" THEN <<ts[1].v>> ELSE <<>>
         IN  IF k = Len(ts) THEN first
             ELSE first \o TopStrings(SubSeq(ts, k + 2, Len(ts)))

\* the text holds an array literal whose elements are strings, at least one
HasStringArray(text) ==
    \E ab \in ArrayLiterals(text) :
        LET inner == SubSeq(text, ab[1] + 1, ab[2] - 1)
        IN  /\ inner # <<>>
            /\ \A k \in 1..Len(inner) : inner[k].k \in {"str", ","}

\* the strings of the first array literal of the text
FirstArrayStrings(text) ==
    LET ab == CHOOSE ab \in ArrayLiterals(text) :
                  \A cd \in ArrayLiterals(text) : ab[1] <= cd[1]
    IN  TopStrings(SubSeq(text, ab[1] + 1, ab[2] - 1))

\* C22: for every response text, both parsers return the strings of the
\* matched JSON array when it parses and holds at least one string, and the
\* de-duplicated UUID matches in every other case; so they return the same
\* list.
C22_ParsersAgree ==
    pc = "parsed" =>
        LET m == jsonMatch(responseText)
            strings == IF m.found /\ JsonParses(m.inner)
                       THEN StringElements(m.inner) ELSE <<>>
            expected == IF strings # <<>> THEN strings
                        ELSE UuidMatches(responseText)
        IN  /\ clientIds = expected
            /\ edgeIds = expected
            /\ clientIds = edgeIds

\* C23: for every response text that holds a well-formed JSON array of
\* strings, the first pass of either parser gives the strings of the first
\* well-formed array literal of the text, in order.
C23_FirstWellFormedArrayWins ==
    [][ /\ (pc = "c_json" /\ HasStringArray(responseText)) =>
              (IF pc' = "e_json" THEN clientIds' ELSE <<>>)
                  = FirstArrayStrings(responseText)
        /\ (pc = "e_json" /\ HasStringArray(responseText)) =>
              edgeIds' = FirstArrayStrings(responseText) ]_vars

\* C30: in a playback without skip, every item before the current one has
\* been counted down from its full duration to 0 (the index moves by one
\* per countdown that reaches 0, no item is passed over), the count of
\* completed exercises is at most the number of exercise items played to
\* the end, and onComplete is called only after the countdown of the last
\* item has reached 0.
C30_PlayerAdvancesOnePerExpiry ==
    ~skipUsed =>
        /\ \A k \in 0..(currentIndex - 1) : k \in playedToEnd
        /\ completedExercises <=
               Cardinality({ k \in playedToEnd :
                                 workoutPlan[k + 1].type = "exercise" })
        /\ currentScreen = "completed" =>
               (Len(workoutPlan) - 1) \in playedToEnd

====
